---- MODULE Spec2Model ----
(***************************************************************************)
(* A model of natnet-decode: the version-aware decoder of NatNet messages  *)
(* (src/src/lib.rs and the entity decoders it calls) and the encoder of    *)
(* outgoing requests (src/src/messages.rs).                                *)
(*                                                                         *)
(* Bytes are numbers 0..255 and a byte source is a sequence of them with a *)
(* cursor.  Every decoder is an operator from (source, cursor) to an       *)
(* outcome [tag, pos, val]: tag "ok" with the decoded value, tag "err"     *)
(* with a ParseError, tag "panic" when the Rust code ends in a panic, or   *)
(* tag "abort" when the process is aborted (a refused allocation).         *)
(* 32-bit patterns that do not fit a signed 32-bit number (u32, f32) are   *)
(* kept as <<high 16 bits, low 16 bits>>; f64 as four 16-bit words.        *)
(***************************************************************************)
EXTENDS Integers, Sequences, FiniteSets, TLC

VARIABLES ver, src, env, failAt, pos, op, wanted, out, req, wire, log, limit

vars == <<ver, src, env, failAt, pos, op, wanted, out, req, wire, log, limit>>

\* ------------------------------------------------------------ outcomes

Ok(p, v) == [tag |-> "ok", pos |-> p, val |-> v]

Err(p, e) == [tag |-> "err", pos |-> p, val |-> e]

Panic(p, why) == [tag |-> "panic", pos |-> p, val |-> why]

\* handle_alloc_error: the process is aborted, nothing is returned or unwound.
Abort(p, why) == [tag |-> "abort", pos |-> p, val |-> why]

\* ParseError (lib.rs): the variants, UnknownResponse carrying the code.
UnknownError == [kind |-> "UnknownError", code |-> 0]

UnknownResponse(id) == [kind |-> "UnknownResponse", code |-> id]

IOError == [kind |-> "IO", code |-> 0]

StringError == [kind |-> "StringError", code |-> 0]

NotEnoughBytes == [kind |-> "NotEnoughBytes", code |-> 0]

\* Option<T>
None == [some |-> FALSE]

Some(x) == [some |-> TRUE, v |-> x]

\* From<std::io::Error> for ParseError: only UnexpectedEof is "not enough bytes".
FromIoError(kind) == IF kind = "UnexpectedEof" THEN NotEnoughBytes ELSE IOError

\* ------------------------------------------------------------ the byte source

\* failAt when the transport never fails.
NoFail == 0 - 1

\* A source S is [buf, kind, checks, drains, chunk, grants, failAt].  kind is the BufRead
\* given by the caller: "slice" (&[u8], the crate's doc example), "cursor"
\* (io::Cursor, the benches) or "stream" (a BufReader over a file or socket,
\* the tests).  Only a stream can fail with a transport error: its bytes from
\* index failAt on cannot be read.  checks says whether the build traps
\* integer overflow (debug) or wraps (release).  drains says what the standard
\* library of the build does to a slice or a cursor when read_exact finds too
\* few bytes: take what is left, or leave the source where it was.  chunk is
\* the number of bytes a stream's transport hands to its BufReader per read
\* (the BufReader's capacity for a file); grants is the largest number of
\* elements the machine's allocator makes room for in one Vec.
Source(b, e, f) ==
  [buf |-> b, kind |-> e.kind, checks |-> e.checks, drains |-> e.drains,
   chunk |-> e.chunk, grants |-> e.grants, failAt |-> f]

\* The number of bytes the source can deliver.
Avail(S) == IF S.failAt = NoFail \/ S.failAt > Len(S.buf) THEN Len(S.buf) ELSE S.failAt

\* What ends the source: a transport error, or the end of the input.
EndKind(S) == IF S.failAt # NoFail /\ S.failAt <= Len(S.buf) THEN "Other" ELSE "UnexpectedEof"

\* The cursor after a read that could not be completed: the default
\* read_exact, which a BufReader uses, has taken what there was, and a
\* draining Cursor is put at the end of its buffer, also from behind it.
FailPos(S, p) == IF S.drains THEN Avail(S) ELSE p

\* The end of what a BufReader holds when the cursor is at p: it is filled by
\* one read of the transport when it is empty, so it holds up to the next
\* multiple of the chunk, and nothing when p is such a multiple.
Held(S, p) ==
  LET end == ((p + S.chunk - 1) \div S.chunk) * S.chunk
  IN  IF end > Avail(S) THEN Avail(S) ELSE end

\* Read::read_exact of n bytes at cursor p, the io::Error converted by try!.
ReadExact(S, p, n) ==
  IF p + n <= Avail(S)
  THEN Ok(p + n, SubSeq(S.buf, p + 1, p + n))
  ELSE Err(FailPos(S, p), FromIoError(EndKind(S)))

\* ------------------------------------------------------------ numbers

LE16(b) == b[1] + 256 * b[2]

\* Two's complement values.
ToI16(u) == IF u >= 32768 THEN u - 65536 ELSE u

ToI32(b) ==
  IF b[4] >= 128
  THEN (b[4] - 256) * 16777216 + b[3] * 65536 + b[2] * 256 + b[1]
  ELSE b[4] * 16777216 + b[3] * 65536 + b[2] * 256 + b[1]

\* A little-endian 32-bit pattern as <<high word, low word>>.
Bits32(b) == <<b[4] * 256 + b[3], b[2] * 256 + b[1]>>

\* A little-endian 64-bit pattern as four words, most significant first.
Bits64(b) == <<b[8] * 256 + b[7], b[6] * 256 + b[5], b[4] * 256 + b[3], b[2] * 256 + b[1]>>

RECURSIVE BitAnd(_, _)
BitAnd(a, b) ==
  IF a = 0 \/ b = 0 THEN 0
  ELSE (IF a % 2 = 1 /\ b % 2 = 1 THEN 1 ELSE 0) + 2 * BitAnd(a \div 2, b \div 2)

\* `params & mask` on i16.
AndI16(x, mask) == ToI16(BitAnd(x % 65536, mask % 65536))

RECURSIVE Pow2(_)
Pow2(k) == IF k = 0 THEN 1 ELSE 2 * Pow2(k - 1)

read_u8(S, p) ==
  LET r == ReadExact(S, p, 1) IN IF r.tag = "ok" THEN Ok(r.pos, r.val[1]) ELSE r

read_u16(S, p) ==
  LET r == ReadExact(S, p, 2) IN IF r.tag = "ok" THEN Ok(r.pos, LE16(r.val)) ELSE r

read_i16(S, p) ==
  LET r == ReadExact(S, p, 2) IN IF r.tag = "ok" THEN Ok(r.pos, ToI16(LE16(r.val))) ELSE r

read_i32(S, p) ==
  LET r == ReadExact(S, p, 4) IN IF r.tag = "ok" THEN Ok(r.pos, ToI32(r.val)) ELSE r

read_u32(S, p) ==
  LET r == ReadExact(S, p, 4) IN IF r.tag = "ok" THEN Ok(r.pos, Bits32(r.val)) ELSE r

read_f32(S, p) ==
  LET r == ReadExact(S, p, 4) IN IF r.tag = "ok" THEN Ok(r.pos, Bits32(r.val)) ELSE r

read_f64(S, p) ==
  LET r == ReadExact(S, p, 8) IN IF r.tag = "ok" THEN Ok(r.pos, Bits64(r.val)) ELSE r

\* `x as f64` for an f32 x: the widening of the bit pattern <<hi, lo>>.
F64Words(sign, e11, m23) ==
  <<sign * 32768 + e11 * 16 + m23 \div 524288, (m23 \div 8) % 65536, (m23 % 8) * 8192, 0>>

\* The position of the leading one bit of m > 0.
RECURSIVE TopBit(_)
TopBit(m) == IF m <= 1 THEN 0 ELSE 1 + TopBit(m \div 2)

F32ToF64(w) ==
  LET sign == w[1] \div 32768
      exp == (w[1] \div 128) % 256
      mant == (w[1] % 128) * 65536 + w[2]
  IN  IF exp = 255
      THEN F64Words(sign, 2047, IF mant = 0 THEN 0 ELSE mant + (IF mant >= 4194304 THEN 0 ELSE 4194304))
      ELSE IF exp # 0 THEN F64Words(sign, exp + 896, mant)
      ELSE IF mant = 0 THEN F64Words(sign, 0, 0)
      ELSE LET k == TopBit(mant)
           IN  F64Words(sign, k + 874, (mant - Pow2(k)) * Pow2(23 - k))

\* ------------------------------------------------------------ versions

\* semver::Version.  pre and build are lists of numeric identifiers.
Version(ma, mi, pa) == [major |-> ma, minor |-> mi, patch |-> pa, pre |-> <<>>, build |-> <<>>]

\* `*ver >= Version::parse(t)` for a release t: major, minor, patch in order,
\* then a pre-release is below its release; build metadata is not compared.
VersionGE(a, t) ==
  \/ a.major > t.major
  \/ a.major = t.major /\ a.minor > t.minor
  \/ a.major = t.major /\ a.minor = t.minor /\ a.patch > t.patch
  \/ a.major = t.major /\ a.minor = t.minor /\ a.patch = t.patch /\ a.pre = <<>>

\* ------------------------------------------------------------ text

\* BufRead::read_until(0): the bytes up to and including the first nul; at the
\* end of the input what was there, without error; a transport error otherwise.
read_until(S, p) ==
  LET nuls == {i \in (p + 1)..Avail(S) : S.buf[i] = 0}
  IN  IF nuls # {}
      THEN LET i == CHOOSE i \in nuls : \A j \in nuls : i <= j
           IN  Ok(i, SubSeq(S.buf, p + 1, i))
      ELSE IF p > Avail(S) THEN Ok(p, <<>>)
      ELSE IF EndKind(S) = "UnexpectedEof" THEN Ok(Avail(S), SubSeq(S.buf, p + 1, Avail(S)))
      ELSE Err(Avail(S), FromIoError(EndKind(S)))

\* String::from_utf8, byte by byte: the number of bytes of the character a lead
\* byte c starts (1 for ASCII, 0 for a byte that starts none).
Utf8Width(c) ==
  IF c < 128 THEN 1
  ELSE IF c >= 194 /\ c <= 223 THEN 2
  ELSE IF c >= 224 /\ c <= 239 THEN 3
  ELSE IF c >= 240 /\ c <= 244 THEN 4
  ELSE 0

IsCont(c) == c >= 128 /\ c <= 191

\* The range of the byte that follows lead byte c (no overlong forms, no
\* surrogates, nothing past U+10FFFF).
SecondOk(c, d) ==
  /\ d >= (IF c = 224 THEN 160 ELSE IF c = 240 THEN 144 ELSE 128)
  /\ d <= (IF c = 237 THEN 159 ELSE IF c = 244 THEN 143 ELSE 191)

\* b is well-formed UTF-8: every lead byte has its continuation bytes, and
\* every continuation byte belongs to a lead byte before it.
Utf8(b) ==
  \A i \in 1..Len(b) :
    IF IsCont(b[i])
    THEN \E d \in 1..3 :
           /\ i - d >= 1
           /\ Utf8Width(b[i - d]) > d
           /\ \A j \in (i - d + 1)..(i - 1) : IsCont(b[j])
    ELSE /\ Utf8Width(b[i]) > 0
         /\ i + Utf8Width(b[i]) - 1 <= Len(b)
         /\ \A j \in (i + 1)..(i + Utf8Width(b[i]) - 1) : IsCont(b[j])
         /\ Utf8Width(b[i]) > 1 => SecondOk(b[i], b[i + 1])

\* Vec::pop: drops the last byte, whatever it is; nothing on an empty vector.
Pop(b) == IF Len(b) = 0 THEN b ELSE SubSeq(b, 1, Len(b) - 1)

\* read_cstring (lib.rs): a String is kept as its UTF-8 bytes.
read_cstring(S, p) ==
  LET r == read_until(S, p)
  IN  IF r.tag # "ok" THEN r
      ELSE LET str_buf == Pop(r.val)
           IN  IF \E i \in 1..Len(str_buf) : str_buf[i] = 0 THEN Err(r.pos, StringError)
               ELSE IF ~Utf8(str_buf) THEN Err(r.pos, StringError)
               ELSE Ok(r.pos, str_buf)

\* ------------------------------------------------------------ decoders by name

\* T::unpack(ver, bytes): every decoder reaches the decoders and the reads it
\* uses through this one operator, defined after them.
RECURSIVE unpack(_, _, _, _)

\* A read that takes no version: bytes.read_i32::<LittleEndian>() is read("i32", S, p).
read(T, S, p) == unpack(T, <<>>, S, p)

\* ------------------------------------------------------------ sender.rs

\* BufRead::consume(amt) for amt >= 0: a slice is re-sliced (and panics past its
\* end), a cursor's position is advanced, a BufReader's is advanced within what
\* it holds at that moment: min(pos + amt, filled).
consume(S, p, amt) ==
  IF S.kind = "slice"
  THEN IF p + amt > Len(S.buf) THEN Panic(p, "slice index out of range") ELSE Ok(p + amt, amt)
  ELSE IF S.kind = "cursor" THEN Ok(p + amt, amt)
  ELSE Ok(IF p + amt > Held(S, p) THEN Held(S, p) ELSE p + amt, amt)

unpack_version(S, p) ==
  LET v1 == read("u8", S, p) IN IF v1.tag # "ok" THEN v1 ELSE
  LET v2 == read("u8", S, v1.pos) IN IF v2.tag # "ok" THEN v2 ELSE
  LET v3 == read("u8", S, v2.pos) IN IF v3.tag # "ok" THEN v3 ELSE
  LET v4 == read("u8", S, v3.pos) IN IF v4.tag # "ok" THEN v4 ELSE
  Ok(v4.pos, [major |-> v1.val, minor |-> v2.val, patch |-> v3.val,
              pre |-> <<>>, build |-> <<v4.val>>])

\* The width of the name's slot in a Sender descriptor.
NameSlot == 256

\* The position inside the buffer of a BufReader that has just read a name
\* ending at p: nothing is held when the input ended before a nul was found;
\* otherwise the buffer was filled at the last multiple of the chunk before p.
Inner(S, p) ==
  IF p = 0 \/ S.buf[p] # 0 THEN 0
  ELSE IF p % S.chunk = 0 THEN S.chunk ELSE p % S.chunk

\* bytes.consume(256 - name.len() - 1): the subtraction is on usize, so with a
\* name over 255 bytes it traps in a build with overflow checks and wraps
\* without them; the wrapped amount indexes a slice out of range and moves a
\* cursor back by the excess.  A BufReader adds it to the position inside its
\* buffer: the sum wraps, and moves back by the excess, when the excess is no
\* more than that position, and is past everything held otherwise, where the
\* reader goes to the end of what it holds.
SenderSkip(S, p, n) ==
  IF NameSlot - n - 1 >= 0 THEN consume(S, p, NameSlot - n - 1)
  ELSE IF S.checks THEN Panic(p, "attempt to subtract with overflow")
  ELSE IF S.kind = "slice" THEN Panic(p, "slice index out of range")
  ELSE IF S.kind = "cursor" \/ Inner(S, p) >= n + 1 - NameSlot
  THEN Ok(p + NameSlot - n - 1, NameSlot - n - 1)
  ELSE Ok(Held(S, p), NameSlot - n - 1)

\* Sender_unpack refusing a sender whose NatNet version is not the caller's.
Sender_unpack_OwnVersion(v, S, p) ==
  LET name == read("cstring", S, p) IN IF name.tag # "ok" THEN name ELSE
  LET skip == SenderSkip(S, name.pos, Len(name.val)) IN IF skip.tag # "ok" THEN skip ELSE
  LET sver == unpack_version(S, skip.pos) IN IF sver.tag # "ok" THEN sver ELSE
  LET nat == unpack_version(S, sver.pos) IN IF nat.tag # "ok" THEN nat ELSE
  IF nat.val.major # v.major \/ nat.val.minor # v.minor THEN Err(nat.pos, UnknownError) ELSE
  Ok(nat.pos, [name |-> name.val, version |-> sver.val, natnet_version |-> nat.val])

\* The sender's description; the caller's version is not looked at.
Sender_unpack(v, S, p) ==
  LET name == read("cstring", S, p) IN IF name.tag # "ok" THEN name ELSE
  LET skip == SenderSkip(S, name.pos, Len(name.val)) IN IF skip.tag # "ok" THEN skip ELSE
  LET sver == unpack_version(S, skip.pos) IN IF sver.tag # "ok" THEN sver ELSE
  LET nat == unpack_version(S, sver.pos) IN IF nat.tag # "ok" THEN nat ELSE
  Ok(nat.pos, [name |-> name.val, version |-> sver.val, natnet_version |-> nat.val])

\* ------------------------------------------------------------ sequences

\* Vec::with_capacity(num as usize): a negative i32 is cast to a usize near
\* 2^64, which Vec refuses with the panic "capacity overflow"; a count the
\* allocator of the machine does not grant aborts the process; any other
\* count is granted.
with_capacity(S, p, num) ==
  IF num < 0 THEN Panic(p, "capacity overflow")
  ELSE IF num > S.grants THEN Abort(p, "memory allocation failed")
  ELSE Ok(p, num)

\* The number of elements Vec::with_capacity(num as usize) is asked to make
\* room for when the cast keeps the count: the count itself, whatever is left
\* of the input.
capacity_asked(num, remaining) == num

\* `for _ in 0..n { result.push(try!(T::unpack(ver, bytes))) }`
RECURSIVE unpack_loop(_, _, _, _, _, _)
unpack_loop(T, v, S, p, n, acc) ==
  IF n <= 0 THEN Ok(p, acc)
  ELSE LET r == unpack(T, v, S, p)
       IN  IF r.tag # "ok" THEN r ELSE unpack_loop(T, v, S, r.pos, n - 1, Append(acc, r.val))

\* unpack_vec (frame.rs): a count, then that many T.
unpack_vec(T, v, S, p) ==
  LET num == read("i32", S, p) IN IF num.tag # "ok" THEN num ELSE
  LET cap == with_capacity(S, num.pos, num.val) IN IF cap.tag # "ok" THEN cap ELSE
  unpack_loop(T, v, S, num.pos, num.val, <<>>)

\* ------------------------------------------------------------ marker.rs

V260 == Version(2, 6, 0)

V270 == Version(2, 7, 0)

V290 == Version(2, 9, 0)

Marker_unpack(v, S, p) ==
  LET x == read("f32", S, p) IN IF x.tag # "ok" THEN x ELSE
  LET y == read("f32", S, x.pos) IN IF y.tag # "ok" THEN y ELSE
  LET z == read("f32", S, y.pos) IN IF z.tag # "ok" THEN z ELSE
  Ok(z.pos, [x |-> x.val, y |-> y.val, z |-> z.val])

\* LabeledMarker_unpack with the mask of model_solved one bit too wide.
LabeledMarker_unpack_Mask3(v, S, p) ==
  LET id == read("i32", S, p) IN IF id.tag # "ok" THEN id ELSE
  LET mpos == unpack("Marker", v, S, id.pos) IN IF mpos.tag # "ok" THEN mpos ELSE
  LET size == read("f32", S, mpos.pos) IN IF size.tag # "ok" THEN size ELSE
  IF VersionGE(v, V260)
  THEN LET params == read("i16", S, size.pos) IN IF params.tag # "ok" THEN params ELSE
       Ok(params.pos, [id |-> id.val, position |-> mpos.val, size |-> size.val,
                       occluded |-> Some(AndI16(params.val, 1) > 0),
                       point_cloud_solved |-> Some(AndI16(params.val, 2) > 0),
                       model_solved |-> Some(AndI16(params.val, 6) > 0)])
  ELSE Ok(size.pos, [id |-> id.val, position |-> mpos.val, size |-> size.val,
                     occluded |-> None, point_cloud_solved |-> None, model_solved |-> None])

\* A labeled marker: the flag field is read from 2.6 on.
LabeledMarker_unpack(v, S, p) ==
  LET id == read("i32", S, p) IN IF id.tag # "ok" THEN id ELSE
  LET mpos == unpack("Marker", v, S, id.pos) IN IF mpos.tag # "ok" THEN mpos ELSE
  LET size == read("f32", S, mpos.pos) IN IF size.tag # "ok" THEN size ELSE
  IF VersionGE(v, V260)
  THEN LET params == read("i16", S, size.pos) IN IF params.tag # "ok" THEN params ELSE
       Ok(params.pos, [id |-> id.val, position |-> mpos.val, size |-> size.val,
                       occluded |-> Some(AndI16(params.val, 1) > 0),
                       point_cloud_solved |-> Some(AndI16(params.val, 2) > 0),
                       model_solved |-> Some(AndI16(params.val, 4) > 0)])
  ELSE Ok(size.pos, [id |-> id.val, position |-> mpos.val, size |-> size.val,
                     occluded |-> None, point_cloud_solved |-> None, model_solved |-> None])

\* ------------------------------------------------------------ rigid_body.rs

Quaternion_unpack(v, S, p) ==
  LET x == read("f32", S, p) IN IF x.tag # "ok" THEN x ELSE
  LET y == read("f32", S, x.pos) IN IF y.tag # "ok" THEN y ELSE
  LET z == read("f32", S, y.pos) IN IF z.tag # "ok" THEN z ELSE
  LET w == read("f32", S, z.pos) IN IF w.tag # "ok" THEN w ELSE
  Ok(w.pos, [x |-> x.val, y |-> y.val, z |-> z.val, w |-> w.val])

RigidBody_unpack(v, S, p) ==
  LET id == read("i32", S, p) IN IF id.tag # "ok" THEN id ELSE
  LET bpos == unpack("Marker", v, S, id.pos) IN IF bpos.tag # "ok" THEN bpos ELSE
  LET orient == unpack("Quaternion", v, S, bpos.pos) IN IF orient.tag # "ok" THEN orient ELSE
  LET num_markers == read("i32", S, orient.pos) IN IF num_markers.tag # "ok" THEN num_markers ELSE
  LET cap == with_capacity(S, num_markers.pos, num_markers.val)
  IN IF cap.tag # "ok" THEN cap ELSE
  LET markers == unpack_loop("Marker", v, S, num_markers.pos, num_markers.val, <<>>)
  IN IF markers.tag # "ok" THEN markers ELSE
  LET ids == unpack_loop("i32", v, S, markers.pos, num_markers.val, <<>>)
  IN IF ids.tag # "ok" THEN ids ELSE
  LET sizes == unpack_loop("f32", v, S, ids.pos, num_markers.val, <<>>)
  IN IF sizes.tag # "ok" THEN sizes ELSE
  LET err == read("f32", S, sizes.pos) IN IF err.tag # "ok" THEN err ELSE
  LET body(track) == [id |-> id.val, position |-> bpos.val, orientation |-> orient.val,
                      markers |-> markers.val, marker_ids |-> ids.val,
                      marker_sizes |-> sizes.val, mean_error |-> err.val,
                      valid_track |-> track]
  IN IF VersionGE(v, V260)
     THEN LET params == read("i16", S, err.pos) IN IF params.tag # "ok" THEN params ELSE
          Ok(params.pos, body(Some(AndI16(params.val, 1) > 0)))
     ELSE Ok(err.pos, body(None))

\* ------------------------------------------------------------ skeleton.rs

Skeleton_unpack(v, S, p) ==
  LET id == read("i32", S, p) IN IF id.tag # "ok" THEN id ELSE
  LET bodies == unpack_vec("RigidBody", v, S, id.pos) IN IF bodies.tag # "ok" THEN bodies ELSE
  Ok(bodies.pos, [id |-> id.val, bones |-> bodies.val])

\* ------------------------------------------------------------ force_plate.rs

\* One channel: its own count, then that many samples.
Channel_unpack(v, S, p) == unpack_vec("f32", v, S, p)

ForcePlate_unpack(v, S, p) ==
  LET id == read("i32", S, p) IN IF id.tag # "ok" THEN id ELSE
  LET chans == unpack_vec("Channel", v, S, id.pos) IN IF chans.tag # "ok" THEN chans ELSE
  Ok(chans.pos, [id |-> id.val, channels |-> chans.val])

\* ------------------------------------------------------------ frame.rs

\* MapInsert keeping the value a key already has.
MapInsert_KeepFirst(m, k, x) ==
  [n \in DOMAIN m \cup {k} |-> IF n \in DOMAIN m THEN m[n] ELSE x]

\* BTreeMap::insert: one entry per key, the last value inserted for it.
MapInsert(m, k, x) == [n \in DOMAIN m \cup {k} |-> IF n = k THEN x ELSE m[n]]

EmptyMap == [n \in {} |-> n]

\* The marker-set loop: a name, a count and that many markers, per set.
RECURSIVE MarkerSets(_, _, _, _, _)
MarkerSets(v, S, p, n, sets) ==
  IF n <= 0 THEN Ok(p, sets) ELSE
  LET name == read("cstring", S, p) IN IF name.tag # "ok" THEN name ELSE
  LET markers == unpack_vec("Marker", v, S, name.pos) IN IF markers.tag # "ok" THEN markers ELSE
  MarkerSets(v, S, markers.pos, n - 1, MapInsert(sets, name.val, markers.val))

\* FramePlates with the force plates gated on 2.7, the threshold of the f64
\* timestamp, instead of 2.9.
FramePlates_From27(v, S, p) ==
  IF VersionGE(v, V270)
  THEN LET r == unpack_vec("ForcePlate", v, S, p)
       IN  IF r.tag # "ok" THEN r ELSE Ok(r.pos, Some(r.val))
  ELSE Ok(p, None)

\* Force plates: NatNet >= 2.9.
FramePlates(v, S, p) ==
  IF VersionGE(v, V290)
  THEN LET r == unpack_vec("ForcePlate", v, S, p)
       IN  IF r.tag # "ok" THEN r ELSE Ok(r.pos, Some(r.val))
  ELSE Ok(p, None)

\* FrameTimestamp without the change of 2.7: an f32 for every version from 2.6.
FrameTimestamp_F32From26(v, S, p) ==
  IF VersionGE(v, V260)
  THEN LET r == read("f32", S, p) IN IF r.tag # "ok" THEN r ELSE Ok(r.pos, Some(F32ToF64(r.val)))
  ELSE Ok(p, None)

\* The timestamp: an f64 from 2.7, an f32 widened to f64 in 2.6, absent before.
FrameTimestamp(v, S, p) ==
  IF VersionGE(v, V270)
  THEN LET r == read("f64", S, p) IN IF r.tag # "ok" THEN r ELSE Ok(r.pos, Some(r.val))
  ELSE IF VersionGE(v, V260)
  THEN LET r == read("f32", S, p) IN IF r.tag # "ok" THEN r ELSE Ok(r.pos, Some(F32ToF64(r.val)))
  ELSE Ok(p, None)

\* The frame's flags, NatNet >= 2.6: <<is_recording, tracked_models_changed>>.
FrameParams(v, S, p) ==
  IF VersionGE(v, V260)
  THEN LET params == read("i16", S, p)
       IN  IF params.tag # "ok" THEN params
           ELSE Ok(params.pos, <<Some(AndI16(params.val, 1) > 0), Some(AndI16(params.val, 2) > 0)>>)
  ELSE Ok(p, <<None, None>>)

\* FrameEod looking at the low byte of the tag only.
FrameEod_LowByte(eod) == eod % 256 = 0

\* The end of data tag, `0` for a valid message.
FrameEod(eod) == eod = 0

FrameOfData_unpack(v, S, p) ==
  LET frame_num == read("i32", S, p) IN IF frame_num.tag # "ok" THEN frame_num ELSE
  LET num_marker_sets == read("i32", S, frame_num.pos)
  IN IF num_marker_sets.tag # "ok" THEN num_marker_sets ELSE
  LET sets == MarkerSets(v, S, num_marker_sets.pos, num_marker_sets.val, EmptyMap)
  IN IF sets.tag # "ok" THEN sets ELSE
  LET others == unpack_vec("Marker", v, S, sets.pos) IN IF others.tag # "ok" THEN others ELSE
  LET bodies == unpack_vec("RigidBody", v, S, others.pos) IN IF bodies.tag # "ok" THEN bodies ELSE
  LET skels == unpack_vec("Skeleton", v, S, bodies.pos) IN IF skels.tag # "ok" THEN skels ELSE
  LET labeled == unpack_vec("LabeledMarker", v, S, skels.pos)
  IN IF labeled.tag # "ok" THEN labeled ELSE
  LET plates == FramePlates(v, S, labeled.pos) IN IF plates.tag # "ok" THEN plates ELSE
  LET latency == read("f32", S, plates.pos) IN IF latency.tag # "ok" THEN latency ELSE
  LET tc == read("u32", S, latency.pos) IN IF tc.tag # "ok" THEN tc ELSE
  LET tcs == read("u32", S, tc.pos) IN IF tcs.tag # "ok" THEN tcs ELSE
  LET ts == FrameTimestamp(v, S, tcs.pos) IN IF ts.tag # "ok" THEN ts ELSE
  LET flags == FrameParams(v, S, ts.pos) IN IF flags.tag # "ok" THEN flags ELSE
  LET eod == read("i32", S, flags.pos) IN IF eod.tag # "ok" THEN eod ELSE
  IF FrameEod(eod.val)
  THEN Ok(eod.pos, [frame_number |-> frame_num.val,
                    marker_sets |-> sets.val,
                    other_markers |-> others.val,
                    rigid_bodies |-> bodies.val,
                    skeletons |-> skels.val,
                    labeled_markers |-> labeled.val,
                    force_plates |-> plates.val,
                    latency |-> latency.val,
                    timecode |-> <<tc.val, tcs.val>>,
                    timestamp |-> ts.val,
                    is_recording |-> flags.val[1],
                    tracked_models_changed |-> flags.val[2]])
  ELSE Err(eod.pos, UnknownError)

\* ------------------------------------------------------------ model.rs

MarkerSetDesc_unpack(v, S, p) ==
  LET name == read("cstring", S, p) IN IF name.tag # "ok" THEN name ELSE
  LET markers == unpack_vec("cstring", v, S, name.pos) IN IF markers.tag # "ok" THEN markers ELSE
  Ok(markers.pos, [name |-> name.val, markers |-> markers.val])

RigidBodyDesc_unpack(v, S, p) ==
  LET name == read("cstring", S, p) IN IF name.tag # "ok" THEN name ELSE
  LET id == read("i32", S, name.pos) IN IF id.tag # "ok" THEN id ELSE
  LET p_id == read("i32", S, id.pos) IN IF p_id.tag # "ok" THEN p_id ELSE
  LET off == unpack("Marker", v, S, p_id.pos) IN IF off.tag # "ok" THEN off ELSE
  Ok(off.pos, [name |-> name.val, id |-> id.val, parent_id |-> p_id.val, offset |-> off.val])

SkeletonDesc_unpack(v, S, p) ==
  LET name == read("cstring", S, p) IN IF name.tag # "ok" THEN name ELSE
  LET id == read("i32", S, name.pos) IN IF id.tag # "ok" THEN id ELSE
  LET bodies == unpack_vec("RigidBodyDesc", v, S, id.pos) IN IF bodies.tag # "ok" THEN bodies ELSE
  Ok(bodies.pos, [name |-> name.val, id |-> id.val, bones |-> bodies.val])

\* DataSetType
DataSetType_MarkerSet == 0

DataSetType_RigidBody == 1

DataSetType_Skeleton == 2

\* DataSet::unpack: the match's last arm is `unreachable!()`, a panic.
DataSet_unpack(v, S, p) ==
  LET d_type == read("i32", S, p) IN IF d_type.tag # "ok" THEN d_type ELSE
  IF d_type.val = DataSetType_MarkerSet
  THEN LET r == unpack("MarkerSetDesc", v, S, d_type.pos)
       IN  IF r.tag # "ok" THEN r ELSE Ok(r.pos, [set |-> "MarkerSet", desc |-> r.val])
  ELSE IF d_type.val = DataSetType_RigidBody
  THEN LET r == unpack("RigidBodyDesc", v, S, d_type.pos)
       IN  IF r.tag # "ok" THEN r ELSE Ok(r.pos, [set |-> "RigidBody", desc |-> r.val])
  ELSE IF d_type.val = DataSetType_Skeleton
  THEN LET r == unpack("SkeletonDesc", v, S, d_type.pos)
       IN  IF r.tag # "ok" THEN r ELSE Ok(r.pos, [set |-> "Skeleton", desc |-> r.val])
  ELSE Panic(d_type.pos, "internal error: entered unreachable code")

\* ------------------------------------------------------------ lib.rs

\* NatNetMsgType
MsgPing == 0

MsgPingResponse == 1

MsgRequest == 2

MsgResponse == 3

MsgRequestModelDef == 4

MsgModelDef == 5

MsgRequestFrameOfData == 6

MsgFrameOfData == 7

MsgMessageString == 8

MsgUnrecognizedRequest == 100

NatNetMsgType ==
  {MsgPing, MsgPingResponse, MsgRequest, MsgResponse, MsgRequestModelDef, MsgModelDef,
   MsgRequestFrameOfData, MsgFrameOfData, MsgMessageString, MsgUnrecognizedRequest}

\* A NatNetResponse: the variant and what it holds.
Response(variant, data) == [variant |-> variant, data |-> data]

\* The declared length that makes a Response an integer response.
ResponseIntLen == 4

\* IsIntResponse taking every length that holds an integer for one.
IsIntResponse_AtLeast(msg_id, num_bytes) == msg_id = MsgResponse /\ num_bytes >= ResponseIntLen

\* Whether a Response of declared length num_bytes is decoded as an i32.
IsIntResponse(msg_id, num_bytes) == msg_id = MsgResponse /\ num_bytes = ResponseIntLen

\* The result of a body decoder r, wrapped into a NatNetResponse variant.
Wrap(variant, r) == IF r.tag # "ok" THEN r ELSE Ok(r.pos, Response(variant, r.val))

\* unpack_rest with the last arm reporting the other field of the envelope.
unpack_rest_ReportsLength(msg_id, num_bytes, v, S, p) ==
  IF msg_id = MsgFrameOfData THEN Wrap("FrameOfData", unpack("FrameOfData", v, S, p))
  ELSE IF msg_id = MsgModelDef THEN Wrap("ModelDef", unpack_vec("DataSet", v, S, p))
  ELSE IF msg_id = MsgPingResponse THEN Wrap("Ping", unpack("Sender", v, S, p))
  ELSE IF msg_id = MsgMessageString THEN Wrap("MessageString", read("cstring", S, p))
  ELSE IF IsIntResponse(msg_id, num_bytes) THEN Wrap("Response", read("i32", S, p))
  ELSE IF msg_id = MsgResponse THEN Wrap("ResponseString", read("cstring", S, p))
  ELSE IF msg_id = MsgUnrecognizedRequest THEN Ok(p, Response("UnrecognizedRequest", <<>>))
  ELSE Err(p, UnknownResponse(num_bytes))

\* NatNet::unpack_rest: the match on msg_id, arm by arm.
unpack_rest(msg_id, num_bytes, v, S, p) ==
  IF msg_id = MsgFrameOfData THEN Wrap("FrameOfData", unpack("FrameOfData", v, S, p))
  ELSE IF msg_id = MsgModelDef THEN Wrap("ModelDef", unpack_vec("DataSet", v, S, p))
  ELSE IF msg_id = MsgPingResponse THEN Wrap("Ping", unpack("Sender", v, S, p))
  ELSE IF msg_id = MsgMessageString THEN Wrap("MessageString", read("cstring", S, p))
  ELSE IF IsIntResponse(msg_id, num_bytes) THEN Wrap("Response", read("i32", S, p))
  ELSE IF msg_id = MsgResponse THEN Wrap("ResponseString", read("cstring", S, p))
  ELSE IF msg_id = MsgUnrecognizedRequest THEN Ok(p, Response("UnrecognizedRequest", <<>>))
  ELSE Err(p, UnknownResponse(msg_id))

\* NatNet::unpack_with
unpack_with(v, S, p) ==
  LET msg_id == read("u16", S, p) IN IF msg_id.tag # "ok" THEN msg_id ELSE
  LET num_bytes == read("u16", S, msg_id.pos) IN IF num_bytes.tag # "ok" THEN num_bytes ELSE
  unpack_rest(msg_id.val, num_bytes.val, v, S, num_bytes.pos)

\* Option::None of unpack_type_with, with the cursor it leaves.
NoMatch(p) == [tag |-> "none", pos |-> p, val |-> <<>>]

\* unpack_type_with going on as soon as the type is read and matches, whatever
\* became of the length.
unpack_type_with_TypeOnly(t, v, S, p) ==
  LET msg_id == read("u16", S, p)
      num_bytes == read("u16", S, msg_id.pos)
  IN  IF msg_id.tag = "ok" /\ msg_id.val = t
      THEN IF num_bytes.tag = "ok"
           THEN unpack_rest(msg_id.val, num_bytes.val, v, S, num_bytes.pos)
           ELSE num_bytes
      ELSE NoMatch(num_bytes.pos)

\* unpack_type_with keeping the successes only: a failure of the body decoder
\* becomes no match.
unpack_type_with_OkOnly(t, v, S, p) ==
  LET msg_id == read("u16", S, p)
      num_bytes == read("u16", S, msg_id.pos)
  IN  IF msg_id.tag = "ok" /\ num_bytes.tag = "ok" /\ msg_id.val = t
      THEN LET r == unpack_rest(msg_id.val, num_bytes.val, v, S, num_bytes.pos)
           IN  IF r.tag = "err" THEN NoMatch(r.pos) ELSE r
      ELSE NoMatch(num_bytes.pos)

\* unpack_type_with giving the envelope back on no match, as a peek would.
unpack_type_with_Peeks(t, v, S, p) ==
  LET msg_id == read("u16", S, p)
      num_bytes == read("u16", S, msg_id.pos)
  IN  IF msg_id.tag = "ok" /\ num_bytes.tag = "ok" /\ msg_id.val = t
      THEN unpack_rest(msg_id.val, num_bytes.val, v, S, num_bytes.pos)
      ELSE NoMatch(p)

\* NatNet::unpack_type_with: both envelope fields are read before either is
\* looked at; Some(result) is the result itself, None is tag "none".
unpack_type_with(t, v, S, p) ==
  LET msg_id == read("u16", S, p)
      num_bytes == read("u16", S, msg_id.pos)
  IN  IF msg_id.tag = "ok" /\ num_bytes.tag = "ok" /\ msg_id.val = t
      THEN unpack_rest(msg_id.val, num_bytes.val, v, S, num_bytes.pos)
      ELSE NoMatch(num_bytes.pos)

\* ------------------------------------------------------------ dispatch

\* The decoders by name: the Unpack implementations, the reads of byteorder's
\* ReadBytesExt, read_cstring, and the two entry points of NatNet.  The
\* filtering entry point takes its wanted type next to the version, as
\* <<version, type>>.
unpack(T, v, S, p) ==
  CASE T = "Marker" -> Marker_unpack(v, S, p)
    [] T = "LabeledMarker" -> LabeledMarker_unpack(v, S, p)
    [] T = "Quaternion" -> Quaternion_unpack(v, S, p)
    [] T = "RigidBody" -> RigidBody_unpack(v, S, p)
    [] T = "Skeleton" -> Skeleton_unpack(v, S, p)
    [] T = "ForcePlate" -> ForcePlate_unpack(v, S, p)
    [] T = "Channel" -> Channel_unpack(v, S, p)
    [] T = "FrameOfData" -> FrameOfData_unpack(v, S, p)
    [] T = "DataSet" -> DataSet_unpack(v, S, p)
    [] T = "MarkerSetDesc" -> MarkerSetDesc_unpack(v, S, p)
    [] T = "RigidBodyDesc" -> RigidBodyDesc_unpack(v, S, p)
    [] T = "SkeletonDesc" -> SkeletonDesc_unpack(v, S, p)
    [] T = "Sender" -> Sender_unpack(v, S, p)
    [] T = "u8" -> read_u8(S, p)
    [] T = "u16" -> read_u16(S, p)
    [] T = "i16" -> read_i16(S, p)
    [] T = "i32" -> read_i32(S, p)
    [] T = "u32" -> read_u32(S, p)
    [] T = "f32" -> read_f32(S, p)
    [] T = "f64" -> read_f64(S, p)
    [] T = "cstring" -> read_cstring(S, p)
    [] T = "NatNet" -> unpack_with(v, S, p)
    [] T = "NatNetType" -> unpack_type_with(v[2], v[1], S, p)

\* ------------------------------------------------------------ messages.rs

\* u16::max_value()
U16Max == 65535

\* write_u16::<LittleEndian>
write_u16(x) == <<x % 256, x \div 256>>

\* CString::to_bytes_with_nul
to_bytes_with_nul(name) == Append(name, 0)

\* RequestInto truncating one byte late: max_value() bytes and then the nul.
RequestInto_OneMore(r) ==
  IF r.kind = "ModelDefinitions" THEN write_u16(MsgRequestModelDef) \o write_u16(0)
  ELSE IF r.kind = "FrameOfData" THEN write_u16(MsgRequestFrameOfData) \o write_u16(0)
  ELSE LET str_data == to_bytes_with_nul(r.name)
       IN  IF Len(str_data) > U16Max
           THEN write_u16(MsgPing) \o write_u16(U16Max)
                  \o SubSeq(str_data, 1, U16Max) \o <<0>>
           ELSE write_u16(MsgPing) \o write_u16(Len(str_data)) \o str_data

\* RequestInto declaring the length of the name without its nul.
RequestInto_NoNul(r) ==
  IF r.kind = "ModelDefinitions" THEN write_u16(MsgRequestModelDef) \o write_u16(0)
  ELSE IF r.kind = "FrameOfData" THEN write_u16(MsgRequestFrameOfData) \o write_u16(0)
  ELSE LET str_data == to_bytes_with_nul(r.name)
       IN  IF Len(str_data) > U16Max
           THEN write_u16(MsgPing) \o write_u16(U16Max)
                  \o SubSeq(str_data, 1, U16Max - 1) \o <<0>>
           ELSE write_u16(MsgPing) \o write_u16(Len(r.name)) \o str_data

\* Into<Vec<u8>> for NatNetRequest.  A request is [kind, name]; a Ping's name is
\* a CString, bytes without a nul.
RequestInto(r) ==
  IF r.kind = "ModelDefinitions" THEN write_u16(MsgRequestModelDef) \o write_u16(0)
  ELSE IF r.kind = "FrameOfData" THEN write_u16(MsgRequestFrameOfData) \o write_u16(0)
  ELSE LET str_data == to_bytes_with_nul(r.name)
       IN  IF Len(str_data) > U16Max
           THEN write_u16(MsgPing) \o write_u16(U16Max)
                  \o SubSeq(str_data, 1, U16Max - 1) \o <<0>>
           ELSE write_u16(MsgPing) \o write_u16(Len(str_data)) \o str_data

\* ------------------------------------------------------------ inputs

\* The bounds of the inputs.
MaxCount == 1

MaxCut == 6

MaxDrop == 3

MaxFail == 5

MaxNameLen == 4

\* The bytes of an i32, little-endian.
I32LE(x) ==
  LET y == IF x < 0 THEN x + 1073741824 + 1073741824 ELSE x
  IN  <<y % 256, (y \div 256) % 256, (y \div 65536) % 256,
        (y \div 16777216) + (IF x < 0 THEN 128 ELSE 0)>>

\* n copies of b, one after the other.
Rep(b, n) == [i \in 1..(n * Len(b)) |-> b[((i - 1) % Len(b)) + 1]]

\* The f32 1.0 and -2.5, and a marker, on the wire.
WireOne == <<0, 0, 128, 63>>

WireF32 == <<0, 0, 32, 192>>

WireMarker == WireOne \o WireF32 \o WireOne

\* A flag field (a 16-bit word) for layouts from 2.6 on, nothing before.
WireFlags(w, fl) == IF VersionGE(w, V260) THEN write_u16(fl) ELSE <<>>

\* What a sender of NatNet version w writes for a rigid body with n markers.
WireBody(w, n, fl) ==
  I32LE(7) \o WireMarker \o WireOne \o WireOne \o WireOne \o WireF32 \o I32LE(n)
    \o Rep(WireMarker, n) \o Rep(I32LE(9), n) \o Rep(WireF32, n) \o WireOne \o WireFlags(w, fl)

WireSkeleton(w, n, fl) == I32LE(3) \o I32LE(n) \o Rep(WireBody(w, n, fl), n)

WireLabeled(w, fl) == I32LE(5) \o WireMarker \o WireF32 \o WireFlags(w, fl)

WirePlate(n) == I32LE(2) \o I32LE(n) \o Rep(I32LE(n) \o Rep(WireF32, n), n)

\* Marker sets named "a", "b", ..., the i-th with n markers.
RECURSIVE WireSets(_, _)
WireSets(i, n) ==
  IF i <= 0 THEN <<>> ELSE WireSets(i - 1, n) \o <<96 + i, 0>> \o I32LE(n) \o Rep(WireMarker, n)

WireTimestamp(w) ==
  IF VersionGE(w, V270) THEN <<0, 0, 0, 0, 0, 0, 240, 63>>
  ELSE IF VersionGE(w, V260) THEN WireOne ELSE <<>>

\* The body of a frame as a sender of version w lays it out: n of everything,
\* flag fields fl and the end-of-data marker eod.
WireFrameBody(w, n, fl, eod) ==
  I32LE(1000 + n) \o I32LE(n) \o WireSets(n, n)
    \o I32LE(n) \o Rep(WireMarker, n)
    \o I32LE(n) \o Rep(WireBody(w, n, fl), n)
    \o I32LE(n) \o Rep(WireSkeleton(w, n, fl), n)
    \o I32LE(n) \o Rep(WireLabeled(w, fl), n)
    \o (IF VersionGE(w, V290) THEN I32LE(n) \o Rep(WirePlate(n), n) ELSE <<>>)
    \o WireF32 \o I32LE(11) \o I32LE(12) \o WireTimestamp(w) \o WireFlags(w, fl) \o I32LE(eod)

\* A message: the envelope, with the body's length declared, and the body.
WireMsg(id, body) == write_u16(id) \o write_u16(Len(body) % 65536) \o body

\* The same with a declared length of the caller's choice.
WireMsgLen(id, len, body) == write_u16(id) \o write_u16(len) \o body

Layouts == {Version(2, 5, 0), V260, V270, V290}

EodVals == {0, 256}

Frames ==
  {WireMsg(MsgFrameOfData, WireFrameBody(w, n, 2 + 3 * n, eod)) :
     w \in Layouts, n \in 0..MaxCount, eod \in EodVals}

\* Frames whose flag fields run over the combinations of the low bits, with
\* and without high bits set: 65528 is 0xFFF8 and 32769 is 0x8001.
FlagVals == {0, 1, 3, 4, 6, 65528, 32769}

FlagFrames ==
  {WireMsg(MsgFrameOfData, WireFrameBody(w, 1, fl, 0)) : w \in {V260, V290}, fl \in FlagVals}

\* A second marker, and a frame that names the marker set "a" twice: first
\* with one marker, after "b" again with two.
WireMarker2 == WireF32 \o WireOne \o WireF32

WireDupSets ==
  <<97, 0>> \o I32LE(1) \o WireMarker
    \o <<98, 0>> \o I32LE(0)
    \o <<97, 0>> \o I32LE(2) \o WireMarker2 \o WireMarker

WireDupBody(w) ==
  I32LE(1000) \o I32LE(3) \o WireDupSets
    \o I32LE(0) \o I32LE(0) \o I32LE(0) \o I32LE(0)
    \o (IF VersionGE(w, V290) THEN I32LE(0) ELSE <<>>)
    \o WireF32 \o I32LE(11) \o I32LE(12) \o WireTimestamp(w) \o WireFlags(w, 0) \o I32LE(0)

DupFrames == {WireMsg(MsgFrameOfData, WireDupBody(w)) : w \in Layouts}

\* Sender descriptors: a name, its nul, the rest of the 256-byte slot filled
\* with 7s, and the two versions.
WireSender(name, nat) ==
  name \o <<0>> \o Rep(<<7>>, NameSlot - Len(name) - 1) \o <<1, 2, 3, 4>> \o nat

SenderNames ==
  {<<>>, <<78>>, <<78, 97, 116>>, <<195, 40>>, Rep(<<65>>, NameSlot - 1), Rep(<<65>>, NameSlot),
   Rep(<<65>>, NameSlot + 44)}

Pings == {WireMsg(MsgPingResponse, WireSender(n, <<2, 9, 0, 0>>)) : n \in SenderNames}

\* Model definitions: descriptors of a marker set, a rigid body and a skeleton,
\* and entries with discriminants outside 0..2.
WireMarkerSetDesc == I32LE(0) \o <<97, 108, 108, 0>> \o I32LE(2) \o <<109, 49, 0>> \o <<109, 50, 0>>

WireRigidBodyDesc == <<114, 98, 0>> \o I32LE(1) \o I32LE(0 - 1) \o WireMarker

WireSkeletonDesc == I32LE(2) \o <<115, 107, 0>> \o I32LE(4) \o I32LE(1) \o WireRigidBodyDesc

ModelDefs ==
  {WireMsg(MsgModelDef, b) : b \in
     {I32LE(0),
      I32LE(1) \o WireMarkerSetDesc,
      I32LE(1) \o I32LE(1) \o WireRigidBodyDesc,
      I32LE(3) \o WireSkeletonDesc \o I32LE(1) \o WireRigidBodyDesc \o WireMarkerSetDesc,
      I32LE(1) \o I32LE(3) \o WireRigidBodyDesc,
      I32LE(2) \o WireMarkerSetDesc \o I32LE(0 - 1) \o WireRigidBodyDesc,
      I32LE(0 - 1) \o WireMarkerSetDesc,
      I32LE(1000000) \o WireMarkerSetDesc,
      I32LE(2147483647) \o WireMarkerSetDesc}}

\* Responses: every declared length against every body.
ResponseLens == {0, 3, ResponseIntLen, 5, U16Max}

ResponseBodies == {I32LE(1), <<111, 107, 0>>, <<111, 107, 0, 0, 0>>, I32LE(0 - 2), <<1, 0>>}

Responses == {WireMsgLen(MsgResponse, l, b) : l \in ResponseLens, b \in ResponseBodies}

Strings == {WireMsg(MsgMessageString, b) : b \in {<<104, 105, 0>>, <<0>>, <<255, 0>>}}

\* Type codes the dispatcher has no decoder for; 263 is 7 + 256.
OtherCodes == {MsgPing, MsgRequest, MsgRequestModelDef, MsgRequestFrameOfData, 9, 263, U16Max}

Others ==
  {WireMsg(MsgUnrecognizedRequest, <<1, 2>>)}
    \cup {WireMsg(c, <<111, 107, 0, 9>>) : c \in OtherCodes}

Messages == Frames \cup FlagFrames \cup DupFrames \cup Pings \cup ModelDefs \cup Responses \cup Strings \cup Others

\* The versions a caller decodes with.
Versions ==
  {Version(2, 5, 0), V260, Version(2, 6, 1), V270, Version(2, 8, 9), V290, Version(3, 0, 0),
   [V290 EXCEPT !.pre = <<1>>]}

\* The versions used with truncated and failing sources.
FewVersions == {Version(2, 5, 0), V290}

\* The sources, builds and machines, in every combination: overflow checks
\* or none; a standard library whose failed read_exact drains a slice or a
\* cursor or leaves it (a BufReader is always drained); a BufReader over a
\* file (8192 bytes per fill, its capacity) or over a transport that hands
\* over 100 bytes per read; a machine that grants every count an i32 holds,
\* or counts up to a million elements.
Envs ==
  {[kind |-> k, checks |-> c, drains |-> d, chunk |-> 0, grants |-> g] :
     k \in {"slice", "cursor"}, c \in BOOLEAN, d \in BOOLEAN, g \in {1000000, 2147483647}}
    \cup {[kind |-> "stream", checks |-> c, drains |-> TRUE, chunk |-> n, grants |-> g] :
            c \in BOOLEAN, n \in {100, 8192}, g \in {1000000, 2147483647}}

\* The lengths a message is truncated to: near its start and near its end.
Cuts(m) == {k \in 0..(Len(m) - 1) : k <= MaxCut \/ k >= Len(m) - MaxDrop}

\* ------------------------------------------------------------ the decoder

NoType == 0 - 1

NoOutcome == [tag |-> "new", pos |-> 0, val |-> <<>>]

NoRequest == [kind |-> "none", name |-> <<>>]

\* NatNet::new(ver) and a source of the caller's: a whole message for every
\* version and kind of source, a truncated one, or one whose transport fails.
InitSource ==
  \/ \E m \in Messages :
       /\ src = m
       /\ ver \in Versions
       /\ env \in Envs
       /\ failAt = NoFail
  \/ \E m \in Messages : \E k \in Cuts(m) :
       /\ src = SubSeq(m, 1, k)
       /\ ver \in FewVersions
       /\ env \in Envs
       /\ failAt = NoFail
  \/ \E m \in Messages :
       /\ src = m
       /\ ver \in FewVersions
       /\ env \in {e \in Envs : e.kind = "stream"}
       /\ failAt \in 0..MaxFail

\* One call on a fresh source.
Init ==
  /\ InitSource
  /\ pos = 0
  /\ op = "new"
  /\ wanted = NoType
  /\ out = NoOutcome
  /\ req = NoRequest
  /\ wire = <<>>
  /\ log = <<>>
  /\ limit = 1

\* What the caller has seen of a call: the entry point, the wanted type, the
\* version of the decoder instance, and the cursor before and the outcome after.
Call(o, t, r) == [op |-> o, wanted |-> t, ver |-> ver, start |-> pos, out |-> r]

\* Unpack taking the NatNet version of a sender it decoded as its own.
Unpack_AdoptsSenderVersion ==
  /\ Len(log) < limit
  /\ out' = unpack("NatNet", ver, Source(src, env, failAt), pos)
  /\ pos' = out'.pos
  /\ op' = "unpack"
  /\ wanted' = NoType
  /\ log' = Append(log, Call("unpack", NoType, out'))
  /\ ver' = IF out'.tag = "ok" /\ out'.val.variant = "Ping"
            THEN out'.val.data.natnet_version ELSE ver
  /\ UNCHANGED <<src, env, failAt, req, wire, limit>>

\* NatNet::unpack(&self, bytes)
Unpack ==
  /\ Len(log) < limit
  /\ out' = unpack("NatNet", ver, Source(src, env, failAt), pos)
  /\ pos' = out'.pos
  /\ op' = "unpack"
  /\ wanted' = NoType
  /\ log' = Append(log, Call("unpack", NoType, out'))
  /\ UNCHANGED <<ver, src, env, failAt, req, wire, limit>>

\* NatNet::unpack_type(&self, t, bytes)
UnpackType(t) ==
  /\ Len(log) < limit
  /\ out' = unpack("NatNetType", <<ver, t>>, Source(src, env, failAt), pos)
  /\ pos' = out'.pos
  /\ op' = "unpack_type"
  /\ wanted' = t
  /\ log' = Append(log, Call("unpack_type", t, out'))
  /\ UNCHANGED <<ver, src, env, failAt, req, wire, limit>>

Next ==
  \/ Unpack
  \/ \E t \in NatNetMsgType : UnpackType(t)

Spec == Init /\ [][Next]_vars

\* ------------------------------------------------------------ several calls

\* The most calls made on one source.
MaxCalls == 4

\* Messages a sender of NatNet 2.5 or 2.9 puts one after the other: the
\* declared length is that of the body.
PartFrame(w) == WireMsg(MsgFrameOfData, WireFrameBody(w, IF VersionGE(w, V290) THEN 1 ELSE 0, 3, 0))

PartPing == WireMsg(MsgPingResponse, WireSender(<<78, 97, 116>>, <<2, 9, 0, 0>>))

PartModel == WireMsg(MsgModelDef, I32LE(1) \o WireMarkerSetDesc)

PartInt == WireMsg(MsgResponse, I32LE(1))

PartText == WireMsg(MsgMessageString, <<104, 105, 0>>)

\* Messages whose declared length is not what the decoder reads: a body
\* behind UnrecognizedRequest, and a text response with bytes after its nul.
PartUnrecognized == WireMsg(MsgUnrecognizedRequest, <<1, 2>>)

PartPadded == WireMsg(MsgResponse, <<111, 107, 0, 0, 0>>)

Parts ==
  {PartFrame(Version(2, 5, 0)), PartFrame(V290), PartPing, PartModel, PartInt, PartText,
   PartUnrecognized, PartPadded}

\* One message, two back to back, or three.
Streams ==
  Parts
    \cup {a \o b : a \in Parts, b \in {PartPing, PartFrame(V290), PartText}}
    \cup {PartText \o PartInt \o PartFrame(Version(2, 5, 0))}

InitCalls ==
  /\ src \in Streams
  /\ ver \in FewVersions
  /\ env \in {e \in Envs : e.kind = "cursor" /\ e.checks /\ e.grants = 1000000}
  /\ failAt = NoFail
  /\ pos = 0
  /\ op = "new"
  /\ wanted = NoType
  /\ out = NoOutcome
  /\ req = NoRequest
  /\ wire = <<>>
  /\ log = <<>>
  /\ limit = MaxCalls

\* buf.set_position(0): the caller takes the buffer from its start again.
Rewind ==
  /\ Len(log) < limit
  /\ pos # 0
  /\ pos' = 0
  /\ op' = "rewind"
  /\ wanted' = NoType
  /\ out' = NoOutcome
  /\ log' = Append(log, Call("rewind", NoType, NoOutcome))
  /\ UNCHANGED <<ver, src, env, failAt, req, wire, limit>>

NextCalls ==
  \/ Unpack
  \/ \E t \in {MsgFrameOfData, MsgPingResponse} : UnpackType(t)
  \/ Rewind

SpecCalls == InitCalls /\ [][NextCalls]_vars

\* ------------------------------------------------------------ the requests

\* The request machine keeps a byte string in its state as its runs, each
\* <<byte, count>>: Runs packs a byte string and Bytes gives it back.
RECURSIVE RunsUpTo(_, _, _)
RunsUpTo(s, ends, from) ==
  IF ends = {} THEN <<>>
  ELSE LET e == CHOOSE j \in ends : \A m \in ends : j <= m
       IN  <<<<s[e], e - from>>>> \o RunsUpTo(s, ends \ {e}, e)

Runs(s) == RunsUpTo(s, {j \in 1..Len(s) : j = Len(s) \/ s[j] # s[j + 1]}, 0)

RECURSIVE Bytes(_)
Bytes(r) == IF r = <<>> THEN <<>> ELSE [i \in 1..r[1][2] |-> r[1][1]] \o Bytes(Tail(r))

Alphabet == {88, 97}

RECURSIVE NamesOfLen(_)
NamesOfLen(n) ==
  IF n = 0 THEN {<<>>} ELSE {Append(x, c) : x \in NamesOfLen(n - 1), c \in Alphabet}

\* Names around the 16-bit limit, and the 100,000 bytes of the spec's test.
LongLens == {U16Max - 2, U16Max - 1, U16Max, U16Max + 1, 100000}

Requests ==
  {[kind |-> "ModelDefinitions", name |-> <<>>], [kind |-> "FrameOfData", name |-> <<>>]}
    \cup {[kind |-> "Ping", name |-> Runs(x)] : x \in UNION {NamesOfLen(n) : n \in 0..MaxNameLen}}
    \cup {[kind |-> "Ping", name |-> <<<<88, n>>>>] : n \in LongLens}

InitReq ==
  /\ req \in Requests
  /\ wire = <<>>
  /\ op = "new"
  /\ out = NoOutcome
  /\ ver = Version(2, 5, 0)
  /\ src = <<>>
  /\ env = [kind |-> "slice", checks |-> TRUE, drains |-> FALSE, chunk |-> 0, grants |-> 2147483647]
  /\ failAt = NoFail
  /\ pos = 0
  /\ wanted = NoType
  /\ log = <<>>
  /\ limit = 0

\* let bytes: Vec<u8> = request.into()
Encode ==
  /\ op = "new"
  /\ wire' = Runs(RequestInto([kind |-> req.kind, name |-> Bytes(req.name)]))
  /\ op' = "into"
  /\ UNCHANGED <<ver, src, env, failAt, pos, wanted, out, req, log, limit>>

\* The receiver's reading of the envelope of the encoded request.
ReadEnvelope(S, p) ==
  LET msg_id == read("u16", S, p) IN IF msg_id.tag # "ok" THEN msg_id ELSE
  LET num_bytes == read("u16", S, msg_id.pos) IN IF num_bytes.tag # "ok" THEN num_bytes ELSE
  Ok(num_bytes.pos, [msg_id |-> msg_id.val, num_bytes |-> num_bytes.val])

ReadBack ==
  /\ op = "into"
  /\ out' = ReadEnvelope(Source(Bytes(wire), env, failAt), 0)
  /\ pos' = out'.pos
  /\ op' = "readback"
  /\ UNCHANGED <<ver, src, env, failAt, wanted, req, wire, log, limit>>

NextReq == Encode \/ ReadBack

SpecReq == InitReq /\ [][NextReq]_vars

\* ------------------------------------------------------------ the claims

\* C1: for every version v and every frame FrameOfData decoding accepts under
\* v, force_plates is present iff v >= 2.9.0, timestamp iff v >= 2.6.0, and
\* is_recording and tracked_models_changed both iff v >= 2.6.0; so at 2.5.0 all
\* four are absent, at 2.7.0 all but force_plates are present, at 2.9.0 all
\* four are present.
C1_OptionalFields ==
  (op = "unpack" /\ out.tag = "ok" /\ out.val.variant = "FrameOfData") =>
    LET f == out.val.data
        present == <<f.force_plates.some, f.timestamp.some, f.is_recording.some,
                     f.tracked_models_changed.some>>
    IN  /\ f.force_plates.some <=> VersionGE(ver, V290)
        /\ f.timestamp.some <=> VersionGE(ver, V260)
        /\ f.is_recording.some <=> VersionGE(ver, V260)
        /\ f.tracked_models_changed.some <=> VersionGE(ver, V260)
        /\ ver = Version(2, 5, 0) => present = <<FALSE, FALSE, FALSE, FALSE>>
        /\ ver = V270 => present = <<FALSE, TRUE, TRUE, TRUE>>
        /\ ver = V290 => present = <<TRUE, TRUE, TRUE, TRUE>>

\* A frame with markers, bodies and skeletons decoded under 2.7.0: everything
\* but the force plates is there.
C1_Witness ==
  /\ op = "unpack"
  /\ ver = V270
  /\ out.tag = "ok"
  /\ out.val.variant = "FrameOfData"
  /\ Len(out.val.data.rigid_bodies) = 1
  /\ ~out.val.data.force_plates.some
  /\ out.val.data.timestamp.some
  /\ out.val.data.is_recording = Some(TRUE)

\* C2: for every version and every frame that decodes successfully, the
\* terminal 4-byte end-of-data marker is zero, and putting any nonzero value
\* in its place, all other bytes unchanged, makes the decode fail with
\* ParseError::UnknownError and return no FrameOfData.
C2_EndOfData ==
  (op = "unpack" /\ out.tag = "ok" /\ out.val.variant = "FrameOfData") =>
    /\ SubSeq(src, pos - 3, pos) = <<0, 0, 0, 0>>
    /\ \A nz \in {<<1, 0, 0, 0>>, <<0, 1, 0, 0>>, <<0, 0, 1, 0>>, <<0, 0, 0, 128>>,
                  <<255, 255, 255, 255>>, <<0, 0, 0, 64>>} :
         LET flipped == SubSeq(src, 1, pos - 4) \o nz \o SubSeq(src, pos + 1, Len(src))
             r == unpack_with(ver, Source(flipped, env, failAt), 0)
         IN  r.tag = "err" /\ r.val = UnknownError

\* A frame laid out for the decoding version whose marker is 256: everything
\* before the marker is read, and the decode fails on it.
C2_Witness ==
  /\ op = "unpack"
  /\ \E w \in Layouts : ver = w /\ src = WireMsg(MsgFrameOfData, WireFrameBody(w, 1, 5, 256))
  /\ out = Err(Len(src), UnknownError)

\* C3: for a message of type Response (3), a declared length of exactly 4 has
\* the body decoded as a little-endian i32 into the integer variant, and every
\* other declared length has it decoded as nul-terminated text into the text
\* variant; the body bytes have no part in the choice.
C3_ResponseByLength ==
  LET S == Source(src, env, failAt)
  IN  (op = "unpack" /\ Avail(S) >= 4 /\ LE16(SubSeq(src, 1, 2)) = MsgResponse) =>
        LET len == LE16(SubSeq(src, 3, 4))
            int == read_i32(S, 4)
            text == read_cstring(S, 4)
        IN  /\ len = 4 =>
                 /\ out.tag = "ok" => out.val.variant = "Response" /\ out.val.data = int.val
                 /\ out.tag = int.tag
                 /\ out.tag # "ok" => out = int
            /\ len # 4 =>
                 /\ out.tag = "ok" => out.val.variant = "ResponseString" /\ out.val.data = text.val
                 /\ out.tag = text.tag
                 /\ out.tag # "ok" => out = text

\* The two bodies of the spec's example, each under the length that is not its
\* own: "ok\0\0\0" declared 4 bytes long is an integer, and the integer 1
\* declared 5 bytes long is text.
C3_Witness ==
  /\ op = "unpack"
  /\ \/ /\ src = WireMsgLen(MsgResponse, 4, <<111, 107, 0, 0, 0>>)
        /\ out = Ok(8, Response("Response", 27503))
     \/ /\ src = WireMsgLen(MsgResponse, 5, I32LE(1))
        /\ out = Ok(6, Response("ResponseString", <<1>>))

\* C4: for every message type and version and every buffer that decodes
\* successfully, decoding a strict prefix of it that is shorter than what the
\* decoder reads fails with ParseError::NotEnoughBytes: no crash and no value,
\* also when the cut is inside the envelope, a scalar, a nul-terminated text
\* or the 256-byte name slot of the Sender.
C4_Truncated ==
  (op = "unpack" /\ failAt = NoFail) =>
    \A m \in Messages :
      (Len(src) < Len(m) /\ SubSeq(m, 1, Len(src)) = src) =>
        LET whole == unpack_with(ver, Source(m, env, NoFail), 0)
        IN  (whole.tag = "ok" /\ Len(src) < whole.pos) => out = Err(out.pos, NotEnoughBytes)

\* C5: whenever the filtering decode returns, it returns None exactly when
\* the envelope's type code differs from the wanted type or one of the two
\* 16-bit envelope fields could not be read (truncation or transport
\* failure); in every other case what it returns is a decode outcome (Some),
\* a value or an error.
C5_NoMatch ==
  op = "unpack_type" =>
    LET readable == Avail(Source(src, env, failAt)) >= 4
        differs == LE16(SubSeq(src, 1, 2)) # wanted
    IN  out.tag = "none" <=> (~readable \/ differs)

\* No match for each of the reasons: another type, an envelope cut short, an
\* envelope the transport fails in; and, for the other direction, a failure
\* of a wanted message that is returned as Some(Err).
C5_Witness ==
  /\ op = "unpack_type"
  /\ \/ Len(src) > 4 /\ failAt = NoFail /\ LE16(SubSeq(src, 1, 2)) # wanted /\ out.tag = "none"
     \/ Len(src) = 3 /\ LE16(SubSeq(src, 1, 2)) = wanted /\ out.tag = "none"
     \/ Len(src) > 4 /\ failAt = 2 /\ LE16(SubSeq(src, 1, 2)) = wanted /\ out.tag = "none"
     \/ Len(src) > 4 /\ failAt = 5 /\ wanted = MsgFrameOfData /\ out.tag = "err" /\ out.val = IOError

\* C6: when the envelope is readable and its type code is the wanted one, the
\* filtering decode returns what unpack_with returns on the same bytes and
\* version, the same value or the same failure, and never no match.
C6_FilterIsPlain ==
  LET S == Source(src, env, failAt)
  IN  (op = "unpack_type" /\ Avail(S) >= 4 /\ LE16(SubSeq(src, 1, 2)) = wanted) =>
        /\ out = unpack_with(ver, S, 0)
        /\ out.tag # "none"

\* Failures of a wanted message that the filter hands on: a frame whose
\* end-of-data marker is not zero, and a type without a decoder.
C6_Witness ==
  /\ op = "unpack_type"
  /\ Len(src) > 4
  /\ LE16(SubSeq(src, 1, 2)) = wanted
  /\ \/ wanted = MsgFrameOfData /\ out = Err(Len(src), UnknownError)
     \/ wanted = MsgRequest /\ out = Err(4, UnknownResponse(2))

\* C7: the dispatcher routes on the type code, and for Response on the
\* declared length: 7 gives the FrameOfData variant, 5 ModelDef, 1 Ping, 8
\* MessageString, 100 UnrecognizedRequest with no body byte read, and every
\* other code (0, 2, 4, 6 among them) the UnknownResponse failure carrying
\* that code, with no body byte read.
C7_Routing ==
  LET S == Source(src, env, failAt)
  IN  (op = "unpack" /\ Avail(S) >= 4) =>
        LET code == LE16(SubSeq(src, 1, 2))
        IN  /\ code = 7 => out = Wrap("FrameOfData", FrameOfData_unpack(ver, S, 4))
            /\ code = 5 => out = Wrap("ModelDef", unpack_vec("DataSet", ver, S, 4))
            /\ code = 1 => out = Wrap("Ping", Sender_unpack(ver, S, 4))
            /\ code = 8 => out = Wrap("MessageString", read_cstring(S, 4))
            /\ code = 100 => out = Ok(4, Response("UnrecognizedRequest", <<>>))
            /\ code \notin {7, 5, 1, 8, 3, 100} => out = Err(4, UnknownResponse(code))
            /\ out.tag = "ok" =>
                 out.val.variant =
                   CASE code = 7 -> "FrameOfData"
                     [] code = 5 -> "ModelDef"
                     [] code = 1 -> "Ping"
                     [] code = 8 -> "MessageString"
                     [] code = 3 -> IF LE16(SubSeq(src, 3, 4)) = 4 THEN "Response" ELSE "ResponseString"
                     [] code = 100 -> "UnrecognizedRequest"

\* A request code and a code that is a known one plus 256, each followed by
\* bytes that would decode as text, and an UnrecognizedRequest with a body.
C7_Witness ==
  /\ op = "unpack"
  /\ Len(src) > 4
  /\ \/ LE16(SubSeq(src, 1, 2)) = 6 /\ out = Err(4, UnknownResponse(6))
     \/ LE16(SubSeq(src, 1, 2)) = 263 /\ out = Err(4, UnknownResponse(263))
     \/ LE16(SubSeq(src, 1, 2)) = 100 /\ out = Ok(4, Response("UnrecognizedRequest", <<>>))

\* C8: a ModelDef message with an entry whose discriminant is not 0, 1 or 2
\* makes the decode return a failure: the entry is not skipped, no ModelDef
\* is returned, and the decoder does not abort.
C8_BadDiscriminant ==
  (/\ op = "unpack"
   /\ failAt = NoFail
   /\ Len(src) >= 12
   /\ LE16(SubSeq(src, 1, 2)) = 5
   /\ ToI32(SubSeq(src, 5, 8)) >= 1
   /\ ToI32(SubSeq(src, 9, 12)) \notin {0, 1, 2}) => out.tag = "err"

\* C9 as the spec states it: for every Ping whose name with its nul is longer
\* than 65535 bytes, the encoded request is exactly 65535 bytes long in all
\* and ends with a nul.
C9_TotalIs65535 ==
  (op # "new" /\ req.kind = "Ping" /\ Len(Bytes(req.name)) + 1 > 65535) =>
    LET bytes == Bytes(wire) IN Len(bytes) = 65535 /\ bytes[Len(bytes)] = 0

\* C9 amended: for every such Ping the body of the encoded request is exactly
\* 65535 bytes long, which is the length the envelope declares, so the request
\* is 65539 bytes long with its 4-byte envelope; its final byte is a nul.
C9_BodyIs65535 ==
  (op # "new" /\ req.kind = "Ping" /\ Len(Bytes(req.name)) + 1 > 65535) =>
    LET bytes == Bytes(wire)
    IN  /\ Len(bytes) = 4 + 65535
        /\ LE16(SubSeq(bytes, 3, 4)) = 65535
        /\ bytes[Len(bytes)] = 0

\* The name of 100,000 bytes of the spec's example, encoded.
C9_Witness ==
  /\ op = "into"
  /\ req.kind = "Ping"
  /\ Len(Bytes(req.name)) = 100000
  /\ Len(Bytes(wire)) = 65539
  /\ Bytes(wire)[65539] = 0

\* C10 as the spec states it: every encoded request is a 16-bit type code
\* (Ping 0, ModelDefinitions 4, FrameOfData 6) and a 16-bit length equal to the
\* number of body bytes that follow; ModelDefinitions and FrameOfData have
\* length 0 and no body, and a Ping with name n has length len(n)+1 and the
\* body n followed by one nul.
C10_LengthIsNamePlusOne ==
  op # "new" =>
    LET bytes == Bytes(wire)
        name == Bytes(req.name)
        body == SubSeq(bytes, 5, Len(bytes))
        length == LE16(SubSeq(bytes, 3, 4))
    IN  /\ Len(bytes) >= 4
        /\ length = Len(body)
        /\ req.kind = "ModelDefinitions" => SubSeq(bytes, 1, 2) = <<4, 0>> /\ length = 0
        /\ req.kind = "FrameOfData" => SubSeq(bytes, 1, 2) = <<6, 0>> /\ length = 0
        /\ req.kind = "Ping" =>
             /\ SubSeq(bytes, 1, 2) = <<0, 0>>
             /\ length = Len(name) + 1
             /\ body = name \o <<0>>

\* C10 amended: as above for a Ping whose name with its nul fits 65535 bytes;
\* a longer name is cut: the length is 65535 and the body is the first 65534
\* bytes of the name followed by one nul.  In every case the length equals
\* the number of body bytes, and the receiver reads the type and that length
\* back from the envelope.
C10_LengthIsBody ==
  op # "new" =>
    LET bytes == Bytes(wire)
        name == Bytes(req.name)
        body == SubSeq(bytes, 5, Len(bytes))
        length == LE16(SubSeq(bytes, 3, 4))
    IN  /\ Len(bytes) >= 4
        /\ length = Len(body)
        /\ req.kind = "ModelDefinitions" => SubSeq(bytes, 1, 2) = <<4, 0>> /\ length = 0
        /\ req.kind = "FrameOfData" => SubSeq(bytes, 1, 2) = <<6, 0>> /\ length = 0
        /\ req.kind = "Ping" =>
             /\ SubSeq(bytes, 1, 2) = <<0, 0>>
             /\ Len(name) + 1 <= 65535 => length = Len(name) + 1 /\ body = name \o <<0>>
             /\ Len(name) + 1 > 65535 =>
                  length = 65535 /\ body = SubSeq(name, 1, 65534) \o <<0>>
        /\ op = "readback" =>
             out = Ok(4, [msg_id |-> LE16(SubSeq(bytes, 1, 2)), num_bytes |-> Len(body)])

\* The Ping named "X", encoded and its envelope read back: type 0, length 2.
C10_Witness ==
  /\ op = "readback"
  /\ req.kind = "Ping"
  /\ Bytes(req.name) = <<88>>
  /\ Bytes(wire) = <<0, 0, 2, 0, 88, 0>>
  /\ out = Ok(4, [msg_id |-> 0, num_bytes |-> 2])

\* C11: in every count-prefixed sequence decoder the declared count is
\* validated or capped before a pre-sized allocation: a count that is negative
\* or larger than what the rest of the input can hold never has room asked
\* for that many elements, and never crashes the decoder.  Stated for the
\* list of model definitions, whose count is the first field of the body.
C11_CountValidated ==
  LET S == Source(src, env, failAt)
  IN  (op = "unpack" /\ Avail(S) >= 8 /\ LE16(SubSeq(src, 1, 2)) = 5) =>
        LET num == ToI32(SubSeq(src, 5, 8))
            remaining == Avail(S) - 8
        IN  (num < 0 \/ num > remaining) =>
              /\ out.tag \notin {"panic", "abort"}
              /\ num > remaining => capacity_asked(num, remaining) <= remaining

\* C14: decoding a Sender descriptor consumes, for every name length from 0
\* to 255 bytes, exactly 256 bytes for the name slot, so that the application
\* version is read from body bytes 256..259, the NatNet version from body bytes
\* 260..263 and 264 body bytes are consumed; and no name length makes the
\* computation of the discard underflow or skip another number of bytes.
C14_NameSlot ==
  LET S == Source(src, env, failAt)
  IN  (/\ op = "unpack"
       /\ failAt = NoFail
       /\ Len(src) >= 4 + 264
       /\ LE16(SubSeq(src, 1, 2)) = 1
       /\ \E i \in 5..Len(src) : src[i] = 0) =>
        LET nul == CHOOSE i \in 5..Len(src) : src[i] = 0 /\ \A j \in 5..(i - 1) : src[j] # 0
            name == SubSeq(src, 5, nul - 1)
            field(i) == [major |-> src[4 + i + 1], minor |-> src[4 + i + 2],
                         patch |-> src[4 + i + 3], pre |-> <<>>, build |-> <<src[4 + i + 4]>>]
        IN  Utf8(name) =>
              /\ out.tag # "panic"
              /\ out.tag = "ok" => out.pos >= nul
              /\ Len(name) <= 255 =>
                   out = Ok(4 + 264, Response("Ping", [name |-> name, version |-> field(256),
                                                       natnet_version |-> field(260)]))

\* C15: in a frame decode the timestamp is absent and takes no byte for
\* versions before 2.6.0, is a 32-bit float widened to a double (4 bytes) for
\* 2.6.x, and a double (8 bytes) from 2.7.0 on; it is read after the two
\* 32-bit timecode words and before the 16-bit flag field of the frame.
\* A frame decode that succeeded ended on the 4 bytes of the end-of-data tag;
\* the fields before it are located from there by the widths claimed.
C15_Timestamp ==
  (op = "unpack" /\ out.tag = "ok" /\ out.val.variant = "FrameOfData") =>
    LET f == out.val.data
        from26 == VersionGE(ver, Version(2, 6, 0))
        from27 == VersionGE(ver, Version(2, 7, 0))
        tsw == IF from27 THEN 8 ELSE IF from26 THEN 4 ELSE 0
        fw == IF from26 THEN 2 ELSE 0
        q == out.pos - 4 - fw - tsw
    IN  /\ q >= 4 + 8
        /\ f.timecode = <<Bits32(SubSeq(src, q - 7, q - 4)), Bits32(SubSeq(src, q - 3, q))>>
        /\ ~from26 => f.timestamp = None
        /\ (from26 /\ ~from27) => f.timestamp = Some(F32ToF64(Bits32(SubSeq(src, q + 1, q + 4))))
        /\ from27 => f.timestamp = Some(Bits64(SubSeq(src, q + 1, q + 8)))
        /\ from26 => f.is_recording = Some(src[q + tsw + 1] % 2 = 1)
        /\ FrameTimestamp(ver, Source(src, env, failAt), q).pos = q + tsw

\* A frame laid out by a 2.6 sender decoded as 2.6.1: the f32 1.0 widened;
\* one laid out by a 2.9 sender decoded as 2.9: the f64 1.0; and one of 2.5.
C15_Witness ==
  /\ op = "unpack" /\ out.tag = "ok" /\ out.val.variant = "FrameOfData"
  /\ ver = Version(2, 6, 1)
  /\ out.val.data.timestamp = Some(<<16368, 0, 0, 0>>)
  /\ out.val.data.timecode[1] # out.val.data.timecode[2]
  /\ out.pos = Len(src)

\* C16: when the marker-set section of a frame holds a name more than once,
\* the decoded mapping has one entry for it, with the markers of the last
\* occurrence on the wire; the mapping has one entry per distinct name, and
\* the bytes of every occurrence, the overwritten ones too, are consumed.
\* The frames here hold "a" with one marker, "b" with none and "a" again with
\* two markers; the sections after the marker sets are empty.
C16_LastWins ==
  (op = "unpack" /\ src \in DupFrames /\ out.tag = "ok") =>
    LET sets == out.val.data.marker_sets
        one == [x |-> Bits32(WireOne), y |-> Bits32(WireF32), z |-> Bits32(WireOne)]
        two == [x |-> Bits32(WireF32), y |-> Bits32(WireOne), z |-> Bits32(WireF32)]
    IN  /\ out.val.variant = "FrameOfData"
        /\ DOMAIN sets = {<<97>>, <<98>>}
        /\ sets[<<97>>] = <<two, one>>
        /\ sets[<<98>>] = <<>>
        /\ out.val.data.other_markers = <<>>
        /\ out.val.data.frame_number = 1000
        /\ out.pos >= 4 + 8 + Len(WireDupSets) + 4
        /\ (\E w \in Layouts :
              /\ src = WireMsg(MsgFrameOfData, WireDupBody(w))
              /\ \A t \in {V260, V270, V290} : VersionGE(ver, t) <=> VersionGE(w, t))
             => out.pos = Len(src)

C16_Witness ==
  /\ op = "unpack" /\ src \in DupFrames /\ out.tag = "ok"
  /\ Len(out.val.data.marker_sets[<<97>>]) = 2
  /\ out.pos = Len(src)

\* C17: from 2.6.0 on every entity with flags reads one 16-bit field, and each
\* optional boolean is one fixed bit of it whatever the other bits are:
\* LabeledMarker occluded bit 0, point_cloud_solved bit 1, model_solved bit 2;
\* RigidBody valid_track bit 0; FrameOfData is_recording bit 0 and
\* tracked_models_changed bit 1. Before 2.6.0 no field is read and the
\* booleans are absent.
\* The frame's own field is the 2 bytes before the end-of-data tag; in the
\* frames sent here every entity carries the same field as the frame, and a
\* decode with the sender's layout ends at the end of the message only if
\* every entity read 2 bytes (none before 2.6).
C17_FlagBits ==
  (op = "unpack" /\ out.tag = "ok" /\ out.val.variant = "FrameOfData") =>
    LET f == out.val.data
        from26 == VersionGE(ver, Version(2, 6, 0))
        fl == IF from26 THEN LE16(SubSeq(src, out.pos - 5, out.pos - 4)) ELSE 0
        flag(d) == IF from26 THEN Some((fl \div d) % 2 = 1) ELSE None
        sent == \E w \in Layouts, n \in 0..MaxCount :
                  /\ src = WireMsg(MsgFrameOfData, WireFrameBody(w, n, fl, 0))
                  /\ \A t \in {V260, V270, V290} : VersionGE(ver, t) <=> VersionGE(w, t)
    IN  /\ f.is_recording = flag(1)
        /\ f.tracked_models_changed = flag(2)
        /\ sent =>
             /\ out.pos = Len(src)
             /\ \A i \in DOMAIN f.labeled_markers :
                  /\ f.labeled_markers[i].occluded = flag(1)
                  /\ f.labeled_markers[i].point_cloud_solved = flag(2)
                  /\ f.labeled_markers[i].model_solved = flag(4)
             /\ \A i \in DOMAIN f.rigid_bodies : f.rigid_bodies[i].valid_track = flag(1)
             /\ \A i \in DOMAIN f.skeletons : \A j \in DOMAIN f.skeletons[i].bones :
                  f.skeletons[i].bones[j].valid_track = flag(1)

\* Flags 3, bits 0 and 1 without bit 2, on a labeled marker and a rigid body.
C17_Witness ==
  /\ op = "unpack" /\ out.tag = "ok" /\ out.val.variant = "FrameOfData"
  /\ out.pos = Len(src)
  /\ Len(out.val.data.labeled_markers) = 1 /\ Len(out.val.data.rigid_bodies) = 1
  /\ out.val.data.labeled_markers[1].occluded = Some(TRUE)
  /\ out.val.data.labeled_markers[1].point_cloud_solved = Some(TRUE)
  /\ out.val.data.labeled_markers[1].model_solved = Some(FALSE)
  /\ out.val.data.rigid_bodies[1].valid_track = Some(TRUE)
  /\ out.val.data.tracked_models_changed = Some(TRUE)

\* C19: the caller's version matters to FrameOfData only: for a source whose
\* type code is not 7 (PingResponse, ModelDef, Response, MessageString,
\* UnrecognizedRequest, an unknown code, or no readable code at all), the
\* decode under any other version gives the same outcome and consumes the
\* same number of bytes; a sender description decodes under a version that is
\* not the sender's.
\* The call of every version is compared with the calls of the oldest and of
\* the newest version on the same source, which makes any two of them equal.
C19_VersionOnlyFrames ==
  LET S == Source(src, env, failAt)
      frame == Len(src) >= 2 /\ LE16(SubSeq(src, 1, 2)) = 7
      others == {Version(2, 5, 0), Version(3, 0, 0)}
  IN  /\ (op = "unpack" /\ ~frame) =>
           \A v \in others : unpack_with(v, S, 0) = out
      /\ (op = "unpack_type" /\ ~frame) =>
           \A v \in others : unpack_type_with(wanted, v, S, 0) = out

\* A PingResponse of a 2.9 sender decoded by a caller that guessed 2.5.
C19_Witness ==
  /\ op = "unpack" /\ ver = Version(2, 5, 0)
  /\ out.tag = "ok" /\ out.val.variant = "Ping"
  /\ out.val.data.natnet_version.major = 2 /\ out.val.data.natnet_version.minor = 9
  /\ out.pos = Len(src)

\* C18: when the filtering decode returns no match on a source that delivers
\* at least 4 bytes, the position after the call is 4 bytes past the position
\* before it: the envelope is consumed, no body byte is, and nothing is given
\* back; the call moves past fewer than 4 bytes only when the source delivers
\* fewer than 4, and then not past more than it delivers.
C18_NoMatchConsumesEnvelope ==
  [][(op' = "unpack_type" /\ out'.tag = "none") =>
       LET held == Avail(Source(src, env, failAt)) - pos
       IN  /\ held >= 4 => pos' = pos + 4
           /\ held < 4 => (pos' >= pos /\ pos' <= pos + held)
           /\ (held >= 4 /\ Len(src) > pos + 4) => LE16(SubSeq(src, pos + 1, pos + 2)) # wanted']_vars

\* No match on a whole message of another type.
C18_Witness ==
  /\ op = "unpack_type" /\ out.tag = "none"
  /\ failAt = NoFail /\ Len(src) > 8
  /\ pos = 4

\* C12: every top-level decode that succeeds consumes the bytes of one
\* message, the 4 envelope bytes plus the body length the envelope declares,
\* so that calls one after the other on messages back to back return them one
\* per call, in order, each starting at the next envelope.
C12_ConsumesDeclared ==
  \A i \in DOMAIN log :
    (log[i].op = "unpack" /\ log[i].out.tag = "ok") =>
      log[i].out.pos = log[i].start + 4 + LE16(SubSeq(src, log[i].start + 3, log[i].start + 4))

\* C13: a decode is a function of the version and the bytes: two calls of the
\* same entry point on the same buffer from its start give equal outcomes,
\* the same value or the same failure, whatever calls were made in between;
\* and every call was made with the version the decoder instance has now: no
\* call changes it.
C13_Idempotent ==
  /\ \A i \in DOMAIN log : log[i].ver = ver
  /\ \A i, j \in DOMAIN log :
       (/\ log[i].op # "rewind" /\ log[i].op = log[j].op /\ log[i].wanted = log[j].wanted
        /\ log[i].start = log[j].start)
         => log[i].out = log[j].out

\* A ping decoded, a failed call behind it, the buffer taken from its start,
\* and the ping decoded again.
C13_Witness ==
  /\ Len(log) = 4
  /\ log[1].op = "unpack" /\ log[1].start = 0 /\ log[1].out.tag = "ok"
  /\ log[1].out.val.variant = "Ping"
  /\ log[2].op = "unpack" /\ log[2].out.tag = "err"
  /\ log[3].op = "rewind"
  /\ log[4].op = "unpack" /\ log[4].start = 0 /\ log[4].out.tag = "ok"

====
